---- MODULE Spec2Model ----
(***************************************************************************)
(* Model of packages/bundler/src/parseScannerResult.ts: the validation     *)
(* rules a bundler applies to the trace of a simulated UserOperation.      *)
(*                                                                         *)
(* Addresses and method names are strings, storage slots and the 32-byte   *)
(* words of keccak preimages are natural numbers.  A JavaScript object     *)
(* used as an ordered map (opcodes, access, reads, writes, contractSize)   *)
(* is the sequence of its entries in key order; an optional value is a     *)
(* sequence of length 0 or 1; the value `undefined` of a string field is   *)
(* the string Undefined.                                                   *)
(***************************************************************************)
EXTENDS Integers, Sequences, FiniteSets, TLC

VARIABLES userOp, tracerResults, validationResult,
          pc, callStack, entitySlots, entity, outcome

vars == <<userOp, tracerResults, validationResult,
          pc, callStack, entitySlots, entity, outcome>>

inputs == <<userOp, tracerResults, validationResult>>

-----------------------------------------------------------------------------
(* Bounds of the explored inputs.                                          *)

MaxStackEvents == 3

MaxCallEvents == 4

MaxContextEvents == 4

MaxSlots == 2

MaxOpcodes == 2

MaxSizes == 2

-----------------------------------------------------------------------------
(* Values.                                                                 *)

Undefined == "undefined"

entryPointAddress == "0xentrypoint"

Sender == "0xsender"

Factory == "0xfactory"

Paymaster == "0xpaymaster"

Token == "0xtoken"

EntityTitles == <<"factory", "account", "paymaster">>

SeqsUpTo(S, n) == UNION {[1..k -> S] : k \in 0..n}

RECURSIVE Concat(_)
Concat(ss) == IF ss = <<>> THEN <<>> ELSE Head(ss) \o Concat(Tail(ss))

Keys(m) == [i \in 1..Len(m) |-> m[i].key]

Range(s) == {s[i] : i \in 1..Len(s)}

\* Array.prototype.find: the first element that passes the test, as an
\* optional value; the test is given by the set of elements that pass it.
Find(s, passing) ==
    LET hits == {i \in 1..Len(s) : s[i] \in passing}
    IN  IF hits = {} THEN <<>>
        ELSE <<s[CHOOSE i \in hits : \A j \in hits : i <= j]>>

-----------------------------------------------------------------------------
(* The selector registry and the decoding it supports.                     *)

KnownFunctions == {"createSender", "validateUserOp", "validatePaymasterUserOp", "depositTo"}

getSighash(name) ==
    CASE name = "createSender"            -> "sighash(createSender)"
      [] name = "validateUserOp"          -> "sighash(validateUserOp)"
      [] name = "validatePaymasterUserOp" -> "sighash(validatePaymasterUserOp)"
      [] name = "depositTo"               -> "sighash(depositTo)"
      [] OTHER                            -> Undefined

UnknownSighash == "sighash(unknown)"

callsFromEntryPointMethodSigs(entityTitle) ==
    CASE entityTitle = "factory"   -> getSighash("createSender")
      [] entityTitle = "account"   -> getSighash("validateUserOp")
      [] entityTitle = "paymaster" -> getSighash("validatePaymasterUserOp")

\* callCatch(() => xfaces.getFunction(top.method), top.method): the fragment
\* registered under a name or a sighash, and the raw string when the lookup
\* throws.
getFunction(method) ==
    LET names == {n \in KnownFunctions : method = n \/ method = getSighash(n)}
    IN  IF names = {} THEN [isFragment |-> FALSE, name |-> Undefined, raw |-> method]
        ELSE [isFragment |-> TRUE, name |-> CHOOSE n \in names : TRUE, raw |-> method]

\* Return data: "0x" is empty, the other two are the ABI encodings of a
\* validatePaymasterUserOp result with an empty and a non-empty context.
EncodedEmptyContext == "abi(context=0x)"

EncodedContext == "abi(context=0xab)"

\* callCatch(() => xfaces.decodeFunctionResult(method, returnData), returnData),
\* reduced to the `context` member of what it yields.
decodeFunctionResult(method, returnData) ==
    IF method.isFragment /\ method.name = "validatePaymasterUserOp"
       THEN CASE returnData = EncodedEmptyContext -> "0x"
              [] returnData = EncodedContext      -> "0xab"
              [] OTHER                            -> Undefined
       ELSE Undefined

-----------------------------------------------------------------------------
(* parseCallStack                                                          *)

IsDepth(type) == type = "depth"

IsExit(type) == type \in {"REVERT", "RETURN"}

IsCreate(type) == type \in {"CREATE", "CREATE2"}

TopFrame ==
    [type |-> "top", to |-> Undefined, from |-> Undefined,
     method |-> "validateUserOp", value |-> <<>>, data |-> Undefined]

spliceFirst(stack) ==
    IF stack = <<>> THEN [top |-> <<>>, rest |-> <<>>]
    ELSE [top |-> <<stack[1]>>, rest |-> Tail(stack)]

\* stack.splice(-1): removes and yields the last element, if any.
spliceLast(stack) ==
    IF stack = <<>> THEN [top |-> <<>>, rest |-> <<>>]
    ELSE [top |-> <<stack[Len(stack)]>>, rest |-> SubSeq(stack, 1, Len(stack) - 1)]

\* The entry pushed to `out` for exit event c closing frame top; `context` is
\* return?.context and `reverted` tells whether `revert` is set.
CallEntry(top, c) ==
    IF IsCreate(top.type)
       THEN [to |-> top.to, from |-> top.from, type |-> top.type, method |-> "",
             value |-> <<>>, context |-> Undefined, reverted |-> FALSE]
       ELSE LET method == getFunction(top.method)
            IN  IF c.type = "REVERT"
                   THEN [to |-> top.to, from |-> top.from, type |-> top.type,
                         method |-> method.name,
                         value |-> top.value, context |-> Undefined, reverted |-> TRUE]
                   ELSE [to |-> top.to, from |-> top.from, type |-> top.type,
                         method |-> IF method.isFragment THEN method.name ELSE method.raw,
                         value |-> <<>>,
                         context |-> decodeFunctionResult(method, c.data),
                         reverted |-> FALSE]

RECURSIVE forEachCall(_, _, _)
forEachCall(calls, stack, out) ==
    IF calls = <<>> THEN out
    ELSE LET c == Head(calls)
         IN  IF IsExit(c.type)
                THEN LET popped == spliceLast(stack)
                         top == IF popped.top = <<>> THEN TopFrame ELSE popped.top[1]
                     IN  forEachCall(Tail(calls), popped.rest, Append(out, CallEntry(top, c)))
                ELSE forEachCall(Tail(calls), Append(stack, c), out)

flatCalls(tr) ==
    Concat([i \in 1..Len(tr.callsFromEntryPoint) |-> tr.callsFromEntryPoint[i].calls])

filterDepth(calls) == SelectSeq(calls, LAMBDA x : ~IsDepth(x.type))

parseCallStack(tr) == forEachCall(filterDepth(flatCalls(tr)), <<>>, <<>>)

-----------------------------------------------------------------------------
(* parseEntitySlots and associatedWith                                     *)

\* hexZeroPad(addr, 32) read as a 256-bit number.
hexZeroPad(addr) ==
    CASE addr = entryPointAddress -> 1
      [] addr = Sender            -> 2
      [] addr = Factory           -> 3
      [] addr = Paymaster         -> 4
      [] addr = Token             -> 5

\* hexZeroPad throws "invalid hex string" on a string that is no hex string;
\* the only such string here is the '' of an absent entity.
isHexString(addr) == addr # ""

toBytes32(addr) == hexZeroPad(addr)

RECURSIVE PreimageNumber(_)
PreimageNumber(k) == IF k = <<>> THEN 0 ELSE 1 + Head(k) + 8 * PreimageNumber(Tail(k))

\* keccak256 of a preimage given as its 32-byte words (each below 7): an
\* injective map whose values lie further apart than a structure is long and
\* above every padded address.
keccak256(k) == 256 * PreimageNumber(k)

startsWith(k, word) == Len(k) >= 1 /\ k[1] = word

StakeInfoEntities(vr) ==
    [factory |-> vr.factoryInfo, account |-> vr.senderInfo, paymaster |-> vr.paymasterInfo]

\* The two nested loops: an entity gets an entry (possibly empty) as soon as
\* there is one preimage, and the hash of every preimage that starts with its
\* padded address.
parseEntitySlots(stakeInfoEntities, keccak) ==
    LET addrs == {stakeInfoEntities[t][1].addr :
                     t \in {t \in Range(EntityTitles) : stakeInfoEntities[t] # <<>>}}
    IN  [addr \in (IF keccak = <<>> THEN {} ELSE addrs) |->
            {keccak256(keccak[i]) :
                i \in {i \in 1..Len(keccak) : startsWith(keccak[i], toBytes32(addr))}}]

StructSize == 128

associatedWith(slot, addr, slots) ==
    \/ slot = hexZeroPad(addr)
    \/ /\ addr \in DOMAIN slots
       /\ \E k1 \in slots[addr] : slot >= k1 /\ slot < k1 + StructSize

-----------------------------------------------------------------------------
(* Verdicts of the checks.                                                 *)

Pass ==
    [kind |-> "pass", check |-> "", title |-> "", name |-> "", slot |-> <<>>,
     opcode |-> "", readWrite |-> ""]

\* requireCond(false, ..., ValidationErrors.OpcodeValidation)
Violation(check, title, name, slot, opcode, readWrite) ==
    [kind |-> "violation", check |-> check, title |-> title, name |-> name,
     slot |-> slot, opcode |-> opcode, readWrite |-> readWrite]

\* throw new Error(...), or an exception thrown by a library call
InternalError(check, title) ==
    [kind |-> "error", check |-> check, title |-> title, name |-> "", slot |-> <<>>,
     opcode |-> "", readWrite |-> ""]

RECURSIVE FirstFailure(_)
FirstFailure(verdicts) ==
    IF verdicts = <<>> THEN Pass
    ELSE IF Head(verdicts).kind # "pass" THEN Head(verdicts)
    ELSE FirstFailure(Tail(verdicts))

-----------------------------------------------------------------------------
(* The checks on the reconstructed call list (lines 186-198).              *)

IgnoredEntryPointMethods == {"0x", "depositTo"}

IsIllegalEntryPointCallAnyCaller(call) ==
    /\ call.to = entryPointAddress
    /\ call.method \notin IgnoredEntryPointMethods

IsIllegalEntryPointCall(call) ==
    /\ call.to = entryPointAddress
    /\ call.from # entryPointAddress
    /\ call.method \notin IgnoredEntryPointMethods

checkEntryPointCalls(calls) ==
    LET callInfoEntryPoint == Find(calls, {call \in Range(calls) : IsIllegalEntryPointCall(call)})
    IN  IF callInfoEntryPoint = <<>> THEN Pass
        ELSE Violation("illegal call into EntryPoint during validation", "",
                       callInfoEntryPoint[1].method, <<>>, "", "")

\* BigNumber.from(x) allocates a new object; ref tells the allocations apart.
BigNumberFrom(x, ref) == [ref |-> ref, n |-> x]

\* a !== b on two objects compares their identity, not their numbers.
StrictNotEqual(a, b) == a.ref # b.ref

ValueOrZero(value) == IF value = <<>> THEN 0 ELSE value[1]

IsValueCall(call) ==
    /\ call.to # entryPointAddress
    /\ StrictNotEqual(BigNumberFrom(ValueOrZero(call.value), 1), BigNumberFrom(0, 2))

\* requireCond(callStack.find(...) != null, 'May not may CALL with value')
checkValueCalls(calls) ==
    IF Find(calls, {call \in Range(calls) : IsValueCall(call)}) # <<>> THEN Pass
    ELSE Violation("May not may CALL with value", "", "", <<>>, "", "")

-----------------------------------------------------------------------------
(* The checks of one entity's level (lines 211-344).                       *)

bannedOpCodesWithoutTimestamp ==
    {"GASPRICE", "GASLIMIT", "DIFFICULTY", "BASEFEE", "BLOCKHASH",
     "NUMBER", "SELFBALANCE", "BALANCE", "ORIGIN", "GAS", "CREATE", "COINBASE",
     "SELFDESTRUCT", "RANDOM", "PREVRANDAO"}

bannedOpCodes ==
    {"GASPRICE", "GASLIMIT", "DIFFICULTY", "TIMESTAMP", "BASEFEE", "BLOCKHASH",
     "NUMBER", "SELFBALANCE", "BALANCE", "ORIGIN", "GAS", "CREATE", "COINBASE",
     "SELFDESTRUCT", "RANDOM", "PREVRANDAO"}

MinStake == 1

MaxFactoryCreate2 == 1

EmptyHexLength == 2

UndeployedSize == 2

\* The length of the hex string of a byte sequence: '0x' and two digits a byte.
HexLength(bytes) == 2 + 2 * Len(bytes)

EntStakes(entityTitle) == StakeInfoEntities(validationResult)[entityTitle]

EntityAddr(entityTitle) ==
    IF EntStakes(entityTitle) = <<>> THEN "" ELSE EntStakes(entityTitle)[1].addr

CurrentNumLevel(entityTitle) ==
    Find(tracerResults.callsFromEntryPoint,
         {info \in Range(tracerResults.callsFromEntryPoint) :
             info.topLevelMethodSig = callsFromEntryPointMethodSigs(entityTitle)})

\* The title of the first entity whose address is addr, else addr itself.
nameAddr(addr) ==
    LET infos == StakeInfoEntities(validationResult)
        hits == {i \in 1..Len(EntityTitles) :
                    /\ infos[EntityTitles[i]] # <<>>
                    /\ infos[EntityTitles[i]][1].addr = addr}
    IN  IF hits = {} THEN addr
        ELSE EntityTitles[CHOOSE i \in hits : \A j \in hits : i <= j]

IsStakedStakeOnly(info) == MinStake < info.stake

IsStaked(info) == MinStake < info.stake /\ MinStake < info.unstakeDelaySec

requireCondAndStake(cond, entityTitle, failure) ==
    IF ~cond THEN Pass
    ELSE IF EntStakes(entityTitle) = <<>>
         THEN InternalError("internal: not in userOp, but has storage accesses", entityTitle)
    ELSE IF IsStaked(EntStakes(entityTitle)[1]) THEN Pass
    ELSE failure

checkOog(entityTitle, level) ==
    IF level.oog THEN Violation("internally reverts on oog", entityTitle, "", <<>>, "", "")
    ELSE Pass

checkOpcodes(entityTitle, level) ==
    FirstFailure([i \in 1..Len(level.opcodes) |->
        IF level.opcodes[i].key \in bannedOpCodes
           THEN Violation("uses banned opcode", entityTitle, "", <<>>, level.opcodes[i].key, "")
           ELSE Pass])

Create2Count(level) ==
    LET hit == Find(level.opcodes, {e \in Range(level.opcodes) : e.key = "CREATE2"})
    IN  IF hit = <<>> THEN <<>> ELSE <<hit[1].count>>

checkCreate2(entityTitle, level) ==
    IF entityTitle = "factory"
       THEN IF ValueOrZero(Create2Count(level)) <= MaxFactoryCreate2 THEN Pass
            ELSE Violation("with too many CREATE2", entityTitle, "", <<>>, "", "")
       ELSE IF Create2Count(level) = <<>> THEN Pass
            ELSE Violation("uses banned opcode", entityTitle, "", <<>>, "CREATE2", "")

SlotRuleNoInitCodeRule(slot, addr, entityAddr) ==
    IF associatedWith(slot, userOp.sender, entitySlots)
       THEN "allowed"
    ELSE IF ~isHexString(entityAddr) THEN "throw"
    ELSE IF associatedWith(slot, entityAddr, entitySlots) THEN "stake"
    ELSE IF addr = entityAddr THEN "stake"
    ELSE "forbidden"

SlotRuleForbidNothing(slot, addr, entityAddr) ==
    IF associatedWith(slot, userOp.sender, entitySlots)
       THEN IF HexLength(userOp.initCode) > EmptyHexLength THEN "stake" ELSE "allowed"
    ELSE IF ~isHexString(entityAddr) THEN "throw"
    ELSE "stake"

SlotRuleOwnStorageFree(slot, addr, entityAddr) ==
    IF associatedWith(slot, userOp.sender, entitySlots)
       THEN IF HexLength(userOp.initCode) > EmptyHexLength THEN "stake" ELSE "allowed"
    ELSE IF ~isHexString(entityAddr) THEN "throw"
    ELSE IF associatedWith(slot, entityAddr, entitySlots) THEN "stake"
    ELSE IF addr = entityAddr THEN "allowed"
    ELSE "forbidden"

\* What one slot asks for in the scan of lines 285-305: nothing ("allowed"),
\* a staked entity ("stake"), a rejection ("forbidden"); "throw" is hexZeroPad
\* failing on the '' that stands for an absent entity's address.
SlotRule(slot, addr, entityAddr) ==
    IF associatedWith(slot, userOp.sender, entitySlots)
       THEN IF HexLength(userOp.initCode) > EmptyHexLength THEN "stake" ELSE "allowed"
    ELSE IF ~isHexString(entityAddr) THEN "throw"
    ELSE IF associatedWith(slot, entityAddr, entitySlots) THEN "stake"
    ELSE IF addr = entityAddr THEN "stake"
    ELSE "forbidden"

\* Object.keys(writes).includes(addr): a key of writes is a 32-byte slot, addr
\* a 20-byte address, so no key is the string addr.
writesIncludeAddr(writes, addr) == FALSE

\* The forEach over [...Object.keys(writes), ...Object.keys(reads)]: the first
\* failure, or a pass that carries the last slot that requires stake.
RECURSIVE scanSlots(_, _, _, _)
scanSlots(slots, requireStakeSlot, entityTitle, entry) ==
    IF slots = <<>> THEN [Pass EXCEPT !.slot = requireStakeSlot]
    ELSE LET slot == Head(slots)
             rule == SlotRule(slot, entry.key, EntityAddr(entityTitle))
         IN  CASE rule = "allowed" ->
                    scanSlots(Tail(slots), requireStakeSlot, entityTitle, entry)
               [] rule = "stake" ->
                    scanSlots(Tail(slots), <<slot>>, entityTitle, entry)
               [] rule = "throw" ->
                    InternalError("invalid hex string", entityTitle)
               [] rule = "forbidden" ->
                    Violation("has forbidden", entityTitle, nameAddr(entry.key), <<slot>>, "",
                              IF writesIncludeAddr(entry.writes, entry.key)
                                 THEN "write to" ELSE "read from")

checkAccessEntry(entityTitle, entry) ==
    IF entry.key = userOp.sender THEN Pass
    ELSE IF entry.key = entryPointAddress THEN Pass
    ELSE LET scan == scanSlots(entry.writes \o entry.reads, <<>>, entityTitle, entry)
         IN  IF scan.kind # "pass" THEN scan
             ELSE requireCondAndStake(scan.slot # <<>>, entityTitle,
                     Violation("unstaked accessed", entityTitle, nameAddr(entry.key),
                               scan.slot, "", ""))

checkAccess(entityTitle, level) ==
    FirstFailure([i \in 1..Len(level.access) |-> checkAccessEntry(entityTitle, level.access[i])])

\* validatePaymasterUserOp?.return?.context
PaymasterContext(entityTitle) ==
    LET validatePaymasterUserOp ==
            Find(callStack, {call \in Range(callStack) :
                               /\ call.method = "validatePaymasterUserOp"
                               /\ call.to = EntityAddr(entityTitle)})
    IN  IF validatePaymasterUserOp = <<>> THEN Undefined
        ELSE validatePaymasterUserOp[1].context

checkContext(entityTitle) ==
    IF entityTitle = "paymaster"
       THEN requireCondAndStake(PaymasterContext(entityTitle) \notin {Undefined, "0x"},
               entityTitle,
               Violation("unstaked paymaster must not return context", entityTitle,
                         "", <<>>, "", ""))
       ELSE Pass

checkContractSize(entityTitle, level) ==
    IF Find(level.contractSize,
            {e \in Range(level.contractSize) :
                e.key # userOp.sender /\ e.size <= UndeployedSize}) = <<>>
       THEN Pass
       ELSE Violation("accesses un-deployed contract", entityTitle, "", <<>>, "", "")

checkLevel(entityTitle, level) ==
    FirstFailure(<<checkOog(entityTitle, level),
                   checkOpcodes(entityTitle, level),
                   checkCreate2(entityTitle, level),
                   checkAccess(entityTitle, level),
                   checkContext(entityTitle),
                   checkContractSize(entityTitle, level)>>)

checkEntityLevel(entityTitle) ==
    LET currentNumLevel == CurrentNumLevel(entityTitle)
    IN  IF currentNumLevel = <<>>
           THEN IF entityTitle = "account"
                   THEN InternalError("missing trace into validateUserOp", entityTitle)
                   ELSE Pass
           ELSE checkLevel(entityTitle, currentNumLevel[1])

-----------------------------------------------------------------------------
(* The returned value (lines 346-354).                                     *)

addressesOf(tr) ==
    Concat([i \in 1..Len(tr.callsFromEntryPoint) |->
               Keys(tr.callsFromEntryPoint[i].contractSize)])

RECURSIVE addReads(_, _)
addReads(storageMap, access) ==
    IF access = <<>> THEN storageMap
    ELSE LET e == Head(access)
         IN  addReads(IF e.key \in Range(Keys(storageMap)) THEN storageMap
                      ELSE Append(storageMap, [key |-> e.key, reads |-> e.reads]),
                      Tail(access))

RECURSIVE storageMapOf(_, _)
storageMapOf(levels, storageMap) ==
    IF levels = <<>> THEN storageMap
    ELSE storageMapOf(Tail(levels), addReads(storageMap, Head(levels).access))

-----------------------------------------------------------------------------
(* parseScannerResult as a sequence of steps.                              *)

Pending == [status |-> "pending", failure |-> Pass, addresses |-> <<>>, storageMap |-> <<>>]

Rejected(failure) ==
    [status |-> "rejected", failure |-> failure, addresses |-> <<>>, storageMap |-> <<>>]

Returned(addresses, storageMap) ==
    [status |-> "returned", failure |-> Pass, addresses |-> addresses,
     storageMap |-> storageMap]

NoSlots == [addr \in {} |-> {}]

\* Lines 181-184.
ParseCallStack ==
    /\ pc = "start"
    /\ IF Len(tracerResults.callsFromEntryPoint) < 1
          THEN /\ outcome' = Rejected(InternalError("no calls from entrypoint", ""))
               /\ pc' = "done"
               /\ callStack' = callStack
          ELSE /\ callStack' = parseCallStack(tracerResults)
               /\ pc' = "calls"
               /\ outcome' = outcome
    /\ UNCHANGED <<inputs, entitySlots, entity>>

\* Lines 186-209.
CheckCallStack ==
    /\ pc = "calls"
    /\ LET failure == FirstFailure(<<checkEntryPointCalls(callStack),
                                     checkValueCalls(callStack)>>)
       IN  IF failure.kind # "pass"
              THEN /\ outcome' = Rejected(failure)
                   /\ pc' = "done"
                   /\ UNCHANGED <<entitySlots, entity>>
              ELSE /\ entitySlots' = parseEntitySlots(StakeInfoEntities(validationResult),
                                                      tracerResults.keccak)
                   /\ entity' = 1
                   /\ pc' = "entities"
                   /\ outcome' = outcome
    /\ UNCHANGED <<inputs, callStack>>

\* One iteration of the forEach of lines 211-344.
CheckEntity ==
    /\ pc = "entities"
    /\ LET failure == checkEntityLevel(EntityTitles[entity])
       IN  IF failure.kind # "pass"
              THEN /\ outcome' = Rejected(failure)
                   /\ pc' = "done"
                   /\ entity' = entity
              ELSE /\ outcome' = outcome
                   /\ IF entity < Len(EntityTitles)
                         THEN entity' = entity + 1 /\ pc' = pc
                         ELSE entity' = entity /\ pc' = "aggregate"
    /\ UNCHANGED <<inputs, callStack, entitySlots>>

\* Lines 346-354.
Aggregate ==
    /\ pc = "aggregate"
    /\ outcome' = Returned(addressesOf(tracerResults),
                           storageMapOf(tracerResults.callsFromEntryPoint, <<>>))
    /\ pc' = "done"
    /\ UNCHANGED <<inputs, callStack, entitySlots, entity>>

Next == ParseCallStack \/ CheckCallStack \/ CheckEntity \/ Aggregate

Start ==
    /\ pc = "start"
    /\ callStack = <<>>
    /\ entitySlots = NoSlots
    /\ entity = 1
    /\ outcome = Pending

-----------------------------------------------------------------------------
(* Inputs.                                                                 *)

Entry(type, to, from, method, value) ==
    [type |-> type, to |-> to, from |-> from, method |-> method,
     value |-> <<value>>, data |-> Undefined]

Exit(type, data) ==
    [type |-> type, to |-> Undefined, from |-> Undefined, method |-> Undefined,
     value |-> <<>>, data |-> data]

DepthMarker == Exit("depth", Undefined)

Info(addr, stake, unstakeDelaySec) ==
    [addr |-> addr, stake |-> stake, unstakeDelaySec |-> unstakeDelaySec]

Level(entityTitle, opcodes, access, contractSize, oog, calls) ==
    [topLevelMethodSig |-> callsFromEntryPointMethodSigs(entityTitle),
     opcodes |-> opcodes, access |-> access, contractSize |-> contractSize,
     oog |-> oog, calls |-> calls]

CleanLevel(entityTitle, calls) == Level(entityTitle, <<>>, <<>>, <<>>, FALSE, calls)

Trace(levels, keccak) == [callsFromEntryPoint |-> levels, keccak |-> keccak]

\* A call that returns: the shortest call list the value check lets through.
PlainCall == <<Entry("CALL", Token, Sender, UnknownSighash, 0), Exit("RETURN", "0x")>>

InjectiveSeqs(S, n) == {s \in SeqsUpTo(S, n) : \A i, j \in 1..Len(s) : s[i] = s[j] => i = j}

DistinctKeySeqs(S, n) ==
    {s \in SeqsUpTo(S, n) : \A i, j \in 1..Len(s) : s[i].key = s[j].key => i = j}

\* --- call-stack reconstruction: entries that differ in kind, target, caller
StackEvents ==
    {Entry(type, to, from, UnknownSighash, 0) :
        type \in {"CALL", "CREATE2"}, to \in {Token, Sender}, from \in {entryPointAddress, Sender}}
    \cup {Exit("RETURN", "0x"), Exit("REVERT", "0x"), DepthMarker}

InitStack ==
    /\ Start
    /\ userOp = [sender |-> Sender, initCode |-> <<>>]
    /\ validationResult = [factoryInfo |-> <<Info(Factory, 2, 2)>>,
                           senderInfo |-> <<Info(Sender, 1, 1)>>,
                           paymasterInfo |-> <<>>]
    /\ tracerResults \in
          {Trace(<<>>, <<>>)} \cup
          {Trace(<<CleanLevel("factory", SubSeq(cs, 1, k)),
                   CleanLevel("account", SubSeq(cs, k + 1, Len(cs)))>>, <<>>) :
              <<cs, k>> \in {x \in SeqsUpTo(StackEvents, MaxStackEvents) \X {0, 1} :
                                x[2] <= Len(x[1])}}

SpecStack == InitStack /\ [][Next]_vars

\* --- the rules on the call list: target, caller, method, value, outcome
CallEvents ==
    {Entry("CALL", to, from, method, 0) :
        to \in {entryPointAddress, Token}, from \in {entryPointAddress, Sender},
        method \in {"0x", getSighash("depositTo"), UnknownSighash}}
    \cup {Entry("CALL", Token, Sender, UnknownSighash, 1),
          Exit("RETURN", "0x"), Exit("REVERT", "0x")}

InitCalls ==
    /\ Start
    /\ userOp = [sender |-> Sender, initCode |-> <<>>]
    /\ validationResult = [factoryInfo |-> <<>>,
                           senderInfo |-> <<Info(Sender, 1, 1)>>,
                           paymasterInfo |-> <<>>]
    /\ tracerResults \in
          {Trace(<<CleanLevel("account", cs)>>, <<>>) :
              cs \in SeqsUpTo(CallEvents, MaxCallEvents)}

SpecCalls == InitCalls /\ [][Next]_vars

\* --- the paymaster's returned context
ContextEvents ==
    {Entry("CALL", Paymaster, entryPointAddress, getSighash("validatePaymasterUserOp"), 0),
     Entry("CALL", Token, Paymaster, getSighash("validatePaymasterUserOp"), 0),
     Entry("CALL", Paymaster, entryPointAddress, UnknownSighash, 0),
     Exit("RETURN", EncodedContext), Exit("RETURN", EncodedEmptyContext),
     Exit("RETURN", "0x"), Exit("REVERT", EncodedContext)}

InitContext ==
    /\ Start
    /\ userOp = [sender |-> Sender, initCode |-> <<>>]
    /\ validationResult \in
          {[factoryInfo |-> <<>>, senderInfo |-> <<Info(Sender, 1, 1)>>, paymasterInfo |-> p] :
              p \in {<<>>, <<Info(Paymaster, 1, 2)>>, <<Info(Paymaster, 2, 1)>>,
                     <<Info(Paymaster, 2, 2)>>}}
    /\ tracerResults \in
          {Trace(<<CleanLevel("account", <<>>),
                   Level("paymaster", <<>>, <<>>, sizes, oog, cs)>>, <<>>) :
              cs \in SeqsUpTo(ContextEvents, MaxContextEvents),
              oog \in BOOLEAN,
              sizes \in {<<>>, <<[key |-> Token, size |-> 0]>>}}

SpecContext == InitContext /\ [][Next]_vars

\* --- storage access of one entity at one address
SenderPreimage == <<hexZeroPad(Sender), 0>>

EntityPreimage(entityTitle) ==
    <<hexZeroPad(CASE entityTitle = "factory" -> Factory
                   [] entityTitle = "account" -> Sender
                   [] entityTitle = "paymaster" -> Paymaster), 0>>

AccessSlots(entityTitle) ==
    {0, hexZeroPad(Sender),
     keccak256(SenderPreimage), keccak256(SenderPreimage) + StructSize - 1,
     keccak256(SenderPreimage) + StructSize,
     keccak256(EntityPreimage(entityTitle))}

AccessEntries(entityTitle) ==
    {[key |-> addr, writes |-> SubSeq(slots, 1, w), reads |-> SubSeq(slots, w + 1, Len(slots))] :
        <<addr, slots, w>> \in
           {x \in {Sender, entryPointAddress, Token, Factory, Paymaster}
                  \X InjectiveSeqs(AccessSlots(entityTitle), MaxSlots)
                  \X (0..MaxSlots) : x[3] <= Len(x[2])}}

AccessLevels(entityTitle, access) ==
    CASE entityTitle = "factory" ->
            <<Level("factory", <<>>, access, <<>>, FALSE, PlainCall), CleanLevel("account", <<>>)>>
      [] entityTitle = "account" ->
            <<Level("account", <<>>, access, <<>>, FALSE, PlainCall)>>
      [] entityTitle = "paymaster" ->
            <<CleanLevel("account", PlainCall), Level("paymaster", <<>>, access, <<>>, FALSE, <<>>)>>

AccessInfos(entityTitle) ==
    LET tested(addr) == {<<Info(addr, 2, 2)>>, <<Info(addr, 2, 1)>>}
    IN  CASE entityTitle = "factory" ->
                {[factoryInfo |-> f, senderInfo |-> <<Info(Sender, 2, 2)>>,
                  paymasterInfo |-> <<Info(Paymaster, 2, 2)>>] : f \in tested(Factory) \cup {<<>>}}
          [] entityTitle = "account" ->
                {[factoryInfo |-> <<Info(Factory, 2, 2)>>, senderInfo |-> a,
                  paymasterInfo |-> <<Info(Paymaster, 2, 2)>>] : a \in tested(Sender)}
          [] entityTitle = "paymaster" ->
                {[factoryInfo |-> <<Info(Factory, 2, 2)>>, senderInfo |-> <<Info(Sender, 2, 2)>>,
                  paymasterInfo |-> p] : p \in tested(Paymaster) \cup {<<>>}}

InitAccess ==
    /\ Start
    /\ userOp \in {[sender |-> Sender, initCode |-> c] : c \in {<<>>, <<96>>}}
    /\ \E entityTitle \in Range(EntityTitles) :
          /\ validationResult \in AccessInfos(entityTitle)
          /\ tracerResults \in
                {Trace(AccessLevels(entityTitle, <<e>>), keccak) :
                    e \in AccessEntries(entityTitle),
                    keccak \in {<<>>, <<SenderPreimage, EntityPreimage(entityTitle)>>}}

SpecAccess == InitAccess /\ [][Next]_vars

\* --- opcode histograms and out-of-gas flags of two levels
OpcodeEntries ==
    {[key |-> "TIMESTAMP", count |-> 1], [key |-> "NUMBER", count |-> 1],
     [key |-> "SLOAD", count |-> 1],
     [key |-> "CREATE2", count |-> 1], [key |-> "CREATE2", count |-> 2]}

OpcodeLevels(entityTitle, calls) ==
    {Level(entityTitle, opcodes, <<>>, <<>>, oog, calls) :
        opcodes \in DistinctKeySeqs(OpcodeEntries, MaxOpcodes), oog \in BOOLEAN}

InitLevels ==
    /\ Start
    /\ userOp = [sender |-> Sender, initCode |-> <<>>]
    /\ validationResult = [factoryInfo |-> <<Info(Factory, 1, 1)>>,
                           senderInfo |-> <<Info(Sender, 1, 1)>>,
                           paymasterInfo |-> <<Info(Paymaster, 1, 1)>>]
    /\ tracerResults \in
          {Trace(<<f, a>>, <<>>) :
              f \in OpcodeLevels("factory", PlainCall), a \in OpcodeLevels("account", <<>>)}
          \cup {Trace(<<a, p>>, <<>>) :
              a \in OpcodeLevels("account", <<>>), p \in OpcodeLevels("paymaster", PlainCall)}
          \cup {Trace(<<f>>, <<>>) : f \in OpcodeLevels("factory", PlainCall)}
          \cup {Trace(<<p>>, <<>>) : p \in OpcodeLevels("paymaster", PlainCall)}

SpecLevels == InitLevels /\ [][Next]_vars

\* --- contract sizes and reads of two levels
SizeEntries ==
    {[key |-> Sender, size |-> 0], [key |-> Token, size |-> 100],
     [key |-> Factory, size |-> 100], [key |-> Token, size |-> 2]}

ReadEntries ==
    {[key |-> Sender, writes |-> <<>>, reads |-> <<0>>],
     [key |-> Sender, writes |-> <<0>>, reads |-> <<1>>]}

InitResult ==
    /\ Start
    /\ userOp = [sender |-> Sender, initCode |-> <<>>]
    /\ validationResult = [factoryInfo |-> <<Info(Factory, 1, 1)>>,
                           senderInfo |-> <<Info(Sender, 1, 1)>>,
                           paymasterInfo |-> <<>>]
    /\ tracerResults \in
          {Trace(<<Level("factory", <<>>, fa, fs, FALSE, PlainCall),
                   Level("account", <<>>, aa, as, FALSE, <<>>)>>, <<>>) :
              fs \in DistinctKeySeqs(SizeEntries, MaxSizes),
              as \in DistinctKeySeqs(SizeEntries, MaxSizes),
              fa \in DistinctKeySeqs(ReadEntries, 1),
              aa \in DistinctKeySeqs(ReadEntries, 1)}

SpecResult == InitResult /\ [][Next]_vars

-----------------------------------------------------------------------------
(* Properties.                                                             *)

Done == pc = "done"

Levels == tracerResults.callsFromEntryPoint

Failure == outcome.failure

IllegalCallCheck == "illegal call into EntryPoint during validation"

\* --- the call events of the trace, depth markers removed, and their pairing
Events == SelectSeq(flatCalls(tracerResults), LAMBDA e : e.type # "depth")

ExitPositions == {j \in 1..Len(Events) : Events[j].type \in {"RETURN", "REVERT"}}

EntryPositions == (1..Len(Events)) \ ExitPositions

NthExit(k) == CHOOSE j \in ExitPositions : Cardinality({x \in ExitPositions : x <= j}) = k

\* Entries minus exits among the events after position i up to position p.
OpenAfter(i, p) ==
    Cardinality((i + 1..p) \cap EntryPositions) - Cardinality((i + 1..p) \cap ExitPositions)

\* Entry i and exit j form a pair: what lies between them pairs off in itself.
Pairs(i, j) ==
    /\ i \in EntryPositions /\ j \in ExitPositions /\ i < j
    /\ \A p \in i + 1..j - 1 : OpenAfter(i, p) >= 0
    /\ OpenAfter(i, j - 1) = 0

EntryOf(j) == {i \in EntryPositions : Pairs(i, j)}

StillOpenAt(i, j) == i \in EntryPositions /\ i < j /\ \A x \in ExitPositions : x < j => ~Pairs(i, x)

C1_ValueCallNeverReturns ==
    (Done /\ \E i \in 1..Len(callStack) : callStack[i].value \notin {<<>>, <<0>>})
       => outcome.status = "rejected" /\ Failure.kind = "violation"

\* C2 as stated: a resolved call whose target is the entry point and whose
\* method is not a deposit is rejected as an illegal call into the entry
\* point, whoever the caller is.
C2_AnyCallerRejected ==
    (Done /\ \E i \in 1..Len(callStack) :
                /\ callStack[i].to = entryPointAddress
                /\ callStack[i].method \notin {"0x", "depositTo"})
       => outcome.status = "rejected" /\ Failure.check = IllegalCallCheck

EntryPointCallsFromOthers ==
    {i \in 1..Len(callStack) :
        /\ callStack[i].to = entryPointAddress
        /\ callStack[i].from # entryPointAddress
        /\ callStack[i].method \notin {"0x", "depositTo"}}

\* C2 amended: validation is rejected as an illegal call into the entry point
\* exactly when the call list holds a resolved call whose target is the entry
\* point, whose caller is not the entry point and whose resolved method is
\* neither '0x' nor depositTo; the rejection names the method of the first such
\* call.  Calls the entry point makes to itself are tolerated.
C2_CallsFromOthersRejected ==
    Done =>
       /\ (EntryPointCallsFromOthers # {})
             = (outcome.status = "rejected" /\ Failure.check = IllegalCallCheck)
       /\ EntryPointCallsFromOthers # {} =>
             /\ Failure.kind = "violation"
             /\ \E i \in EntryPointCallsFromOthers :
                   /\ Failure.name = callStack[i].method
                   /\ \A j \in EntryPointCallsFromOthers : i <= j

\* A call into the entry point from another contract was rejected while the
\* list also held a call of the entry point to itself.
C2_IllegalCallRejected ==
    /\ Done
    /\ Failure.check = IllegalCallCheck
    /\ \E i \in 1..Len(callStack) :
          callStack[i].to = entryPointAddress /\ callStack[i].from = entryPointAddress

ClaimedBannedOpcodes ==
    {"GASPRICE", "GASLIMIT", "DIFFICULTY", "TIMESTAMP", "BASEFEE", "BLOCKHASH", "NUMBER",
     "SELFBALANCE", "BALANCE", "ORIGIN", "GAS", "CREATE", "COINBASE", "SELFDESTRUCT",
     "RANDOM", "PREVRANDAO"}

LevelsOf(entityTitle) ==
    {i \in 1..Len(Levels) :
        Levels[i].topLevelMethodSig = callsFromEntryPointMethodSigs(entityTitle)}

TitleIndex(title) == CHOOSE i \in 1..Len(EntityTitles) : EntityTitles[i] = title

\* The failure, if any, was raised no later than the level of entityTitle.
FailedNoLaterThan(entityTitle) ==
    \/ Failure.title = ""
    \/ /\ Failure.title \in Range(EntityTitles)
       /\ TitleIndex(Failure.title) <= TitleIndex(entityTitle)

CleanTrace ==
    /\ LevelsOf("account") # {}
    /\ userOp.initCode = <<>>
    /\ \A i \in 1..Len(Levels) :
          LET level == Levels[i]
          IN  /\ ~level.oog
              /\ \A n \in 1..Len(level.opcodes) :
                    level.opcodes[n].key \notin ClaimedBannedOpcodes \cup {"CREATE2"}
              /\ \A n \in 1..Len(level.access) : level.access[n].key = userOp.sender
              /\ \A n \in 1..Len(level.contractSize) :
                    \/ level.contractSize[n].key = userOp.sender
                    \/ level.contractSize[n].size > 2
              /\ \A n \in 1..Len(level.calls) :
                    /\ level.calls[n].value \in {<<>>, <<0>>}
                    /\ level.calls[n].to # entryPointAddress

\* C8: a clean trace (an account level, no out-of-gas, no banned opcode, no
\* CREATE2, storage access only at the sender's address, no call with value, no
\* call into the entry point, no un-deployed contract) of an operation without
\* initCode is returned and not rejected, whatever its call events are.
C8_CleanTraceReturns ==
    (Done /\ CleanTrace)
       => outcome.status = "returned"

\* --- the paymaster's context
ContextCheck == "unstaked paymaster must not return context"

PaymasterCalls ==
    {i \in 1..Len(callStack) :
        /\ validationResult.paymasterInfo # <<>>
        /\ callStack[i].method = "validatePaymasterUserOp"
        /\ callStack[i].to = validationResult.paymasterInfo[1].addr}

\* The paymaster's validatePaymasterUserOp call (the first in the call list)
\* returned a decoded context that is neither absent nor '0x'.
ContextReturned ==
    /\ LevelsOf("paymaster") # {}
    /\ PaymasterCalls # {}
    /\ callStack[CHOOSE i \in PaymasterCalls : \A j \in PaymasterCalls : i <= j].context
          \notin {Undefined, "0x"}

AboveThreshold(info) == info.stake > MinStake /\ info.unstakeDelaySec > MinStake

\* C7: when the paymaster level's validatePaymasterUserOp call returns a
\* non-empty context and the paymaster's stake or unstake delay is not above
\* the threshold, validation is rejected, and the rejection is 'unstaked
\* paymaster must not return context' once the checks that come before it
\* (call list, earlier levels, the level's out-of-gas flag, opcodes and storage
\* access) have passed; it is never the check that follows.  With stake and
\* delay both above the threshold the context check does not reject, and the
\* context check rejects in no other case.
C7_UnstakedPaymasterContext ==
    Done =>
       /\ Failure.check = ContextCheck =>
             /\ ContextReturned
             /\ ~AboveThreshold(validationResult.paymasterInfo[1])
             /\ Failure = Violation(ContextCheck, "paymaster", "", <<>>, "", "")
       /\ (ContextReturned /\ ~AboveThreshold(validationResult.paymasterInfo[1])) =>
             /\ outcome.status = "rejected"
             /\ Failure.check # "accesses un-deployed contract"
             /\ \A i \in LevelsOf("paymaster") :
                   (/\ Failure.title = "paymaster"
                    /\ ~Levels[i].oog
                    /\ Levels[i].opcodes = <<>>
                    /\ Levels[i].access = <<>>) => Failure.check = ContextCheck

\* An unstaked paymaster (stake above the threshold, delay not) was rejected
\* for the context it returned.
C7_ContextRejected ==
    /\ Done
    /\ ContextReturned
    /\ Failure.check = ContextCheck
    /\ validationResult.paymasterInfo[1].stake > MinStake

\* --- banned opcodes
BannedAt(level) ==
    {n \in 1..Len(level.opcodes) : level.opcodes[n].key \in ClaimedBannedOpcodes}

\* C6 as stated: a level whose histogram holds a banned opcode makes
\* validation fail with a violation that names a banned opcode of that level
\* and the level's entity, whatever the other checks and levels hold.
C6_AlwaysNamesOpcodeAndEntity ==
    Done =>
       \A title \in Range(EntityTitles) : \A i \in LevelsOf(title) :
          BannedAt(Levels[i]) # {} =>
             /\ outcome.status = "rejected"
             /\ Failure.check = "uses banned opcode"
             /\ Failure.title = title
             /\ \E n \in BannedAt(Levels[i]) : Failure.opcode = Levels[i].opcodes[n].key

\* C6 amended: a level whose histogram holds a banned opcode makes validation
\* fail, no later than at that level; when the failure is raised at that level
\* and the level is not flagged out-of-gas, it is the violation that names the
\* entity and the first banned opcode of the histogram.  A call-list check, an
\* earlier level or the out-of-gas flag may reject first.
C6_BannedOpcodeRejected ==
    Done =>
       \A title \in Range(EntityTitles) : \A i \in LevelsOf(title) :
          BannedAt(Levels[i]) # {} =>
             /\ outcome.status = "rejected"
             /\ FailedNoLaterThan(title)
             /\ (Failure.title = title /\ ~Levels[i].oog) =>
                   /\ Failure.kind = "violation"
                   /\ Failure.check = "uses banned opcode"
                   /\ \E n \in BannedAt(Levels[i]) :
                         /\ Failure.opcode = Levels[i].opcodes[n].key
                         /\ \A m \in BannedAt(Levels[i]) : n <= m

\* The account level, whose histogram holds two banned opcodes, was rejected
\* for a banned opcode after a factory level that passed.
C6_AccountOpcodeRejected ==
    /\ Done
    /\ Failure.check = "uses banned opcode"
    /\ Failure.title = "account"
    /\ LevelsOf("factory") # {}
    /\ \E i \in LevelsOf("account") : Cardinality(BannedAt(Levels[i])) = 2

\* --- the returned addresses
\* C9: on success the returned address list holds every address that has a
\* contract-size entry in some level, and holds no address twice.
C9_AddressesDistinct ==
    (Done /\ outcome.status = "returned") =>
       /\ Range(outcome.addresses) =
             UNION {Range(Keys(Levels[i].contractSize)) : i \in 1..Len(Levels)}
       /\ \A i, j \in 1..Len(outcome.addresses) :
             outcome.addresses[i] = outcome.addresses[j] => i = j

\* --- storage access
\* slot is associated with addr: it is the padded address itself, or it lies in
\* the structure that starts at the hash of a preimage beginning with the
\* padded address.
Associated(slot, addr) ==
    \/ slot = hexZeroPad(addr)
    \/ \E n \in 1..Len(tracerResults.keccak) :
          LET k == tracerResults.keccak[n]
          IN  /\ Len(k) >= 1 /\ k[1] = hexZeroPad(addr)
              /\ slot >= keccak256(k)
              /\ slot < keccak256(k) + 128

InfoOf(title) ==
    CASE title = "factory"   -> validationResult.factoryInfo
      [] title = "account"   -> validationResult.senderInfo
      [] title = "paymaster" -> validationResult.paymasterInfo

\* The role name of an address that is a known entity's, else the address.
RoleName(addr) ==
    IF \E t \in Range(EntityTitles) : InfoOf(t) # <<>> /\ InfoOf(t)[1].addr = addr
       THEN EntityTitles[CHOOSE i \in 1..Len(EntityTitles) :
               /\ InfoOf(EntityTitles[i]) # <<>> /\ InfoOf(EntityTitles[i])[1].addr = addr
               /\ \A j \in 1..i - 1 :
                     InfoOf(EntityTitles[j]) = <<>> \/ InfoOf(EntityTitles[j])[1].addr # addr]
       ELSE addr

\* The touched addresses the storage rules look at: <<title, level, entry>> of
\* an entity that is present, at an address other than sender and entry point.
Touched ==
    {x \in Range(EntityTitles) \X (1..Len(Levels)) \X (1..MaxSlots + 1) :
        /\ InfoOf(x[1]) # <<>>
        /\ x[2] \in LevelsOf(x[1])
        /\ x[3] <= Len(Levels[x[2]].access)
        /\ Levels[x[2]].access[x[3]].key \notin {userOp.sender, entryPointAddress}}

EntryOfTouched(x) == Levels[x[2]].access[x[3]]

SlotsOfTouched(x) == EntryOfTouched(x).writes \o EntryOfTouched(x).reads

OwnContract(x) == EntryOfTouched(x).key = InfoOf(x[1])[1].addr

SenderSlot(slot) == Associated(slot, userOp.sender)

EntitySlot(x, slot) == Associated(slot, InfoOf(x[1])[1].addr)

ForbiddenAt(x) ==
    {n \in 1..Len(SlotsOfTouched(x)) :
        /\ ~SenderSlot(SlotsOfTouched(x)[n])
        /\ ~EntitySlot(x, SlotsOfTouched(x)[n])
        /\ ~OwnContract(x)}

\* The failure was raised by the storage rules of touched address x: at the
\* level of its entity, after the level's out-of-gas and opcode checks, with no
\* touched address before it.
RaisedAt(x) ==
    /\ Failure.title = x[1]
    /\ Failure.check \notin
          {"internally reverts on oog", "uses banned opcode", "with too many CREATE2"}
    /\ x[3] = 1

\* C3: when an entity's level touches an address other than sender and entry
\* point, and a slot read or written there is neither associated with the
\* sender nor with the entity's address while the address is not the entity's
\* own contract, validation fails no later than at that level, and the failure
\* the storage rules raise there is the policy violation that names the
\* entity, the address (the role name when it is a known entity's address) and
\* the first such slot, writes before reads.
C3_ForbiddenSlotRejected ==
    Done =>
       \A x \in Touched :
          ForbiddenAt(x) # {} =>
             /\ outcome.status = "rejected"
             /\ FailedNoLaterThan(x[1])
             /\ RaisedAt(x) =>
                   /\ Failure.kind = "violation"
                   /\ Failure.check = "has forbidden"
                   /\ Failure.name = RoleName(EntryOfTouched(x).key)
                   /\ \E n \in ForbiddenAt(x) :
                         /\ Failure.slot = <<SlotsOfTouched(x)[n]>>
                         /\ \A m \in ForbiddenAt(x) : n <= m

\* The paymaster was rejected for a slot of the factory's contract, which the
\* message names by its role, the second of the two slots it touched there.
C3_ForbiddenSlotNamed ==
    /\ Done
    /\ Failure.check = "has forbidden"
    /\ Failure.title = "paymaster"
    /\ Failure.name = "factory"
    /\ \E x \in Touched : x[1] = "paymaster" /\ ForbiddenAt(x) = {2}

StakeRequiredAsClaimed(x) ==
    {n \in 1..Len(SlotsOfTouched(x)) :
        \/ SenderSlot(SlotsOfTouched(x)[n]) /\ userOp.initCode # <<>>
        \/ EntitySlot(x, SlotsOfTouched(x)[n])
        \/ OwnContract(x)}

\* C4 as stated: at a touched address whose slots are all permitted, a slot
\* that is sender-associated while initCode is non-empty, or associated with
\* the entity's address, or any slot of the entity's own contract, makes the
\* validation of an unstaked entity fail.
C4_UnstakedRejectedAsClaimed ==
    Done =>
       \A x \in Touched :
          (/\ ForbiddenAt(x) = {}
           /\ StakeRequiredAsClaimed(x) # {}
           /\ ~AboveThreshold(InfoOf(x[1])[1])) => outcome.status = "rejected"

\* A sender-associated slot asks for stake only under initCode; any other
\* permitted slot always does.
StakeRequiredAt(x) ==
    {n \in 1..Len(SlotsOfTouched(x)) :
        IF SenderSlot(SlotsOfTouched(x)[n]) THEN userOp.initCode # <<>> ELSE TRUE}

UnstakedAccessAt(x) ==
    /\ Failure.check = "unstaked accessed"
    /\ Failure.title = x[1]
    /\ Failure.name = RoleName(EntryOfTouched(x).key)

\* C4 amended: at a touched address whose slots are all permitted, a slot
\* requires stake when it is sender-associated and initCode is non-empty, or
\* when it is not sender-associated (it is then associated with the entity's
\* address or lies in the entity's own contract); a sender-associated slot
\* under empty initCode requires none, also in the entity's own contract.  If
\* some slot requires stake and the entity's stake or unstake delay is not
\* above 1, validation fails no later than at that level, and the failure the
\* storage rules raise there is 'unstaked {entity} accessed {address} slot'
\* with the last such slot; with a staked entity, or with no such slot, that
\* violation is not raised for the address.
C4_UnstakedAccessRejected ==
    Done =>
       \A x \in Touched :
          ForbiddenAt(x) = {} =>
             IF StakeRequiredAt(x) # {} /\ ~AboveThreshold(InfoOf(x[1])[1])
                THEN /\ outcome.status = "rejected"
                     /\ FailedNoLaterThan(x[1])
                     /\ RaisedAt(x) =>
                           /\ Failure.kind = "violation"
                           /\ UnstakedAccessAt(x)
                           /\ \E n \in StakeRequiredAt(x) :
                                 /\ Failure.slot = <<SlotsOfTouched(x)[n]>>
                                 /\ \A m \in StakeRequiredAt(x) : m <= n
                ELSE ~UnstakedAccessAt(x)

\* An unstaked account under initCode was rejected for a slot derived from the
\* sender's address in another contract.
C4_UnstakedAccountRejected ==
    /\ Done
    /\ userOp.initCode # <<>>
    /\ Failure.check = "unstaked accessed"
    /\ Failure.title = "account"
    /\ Failure.name = Token
    /\ Failure.slot = <<keccak256(<<hexZeroPad(userOp.sender), 0>>)>>

SenderSlotsOnly(x) ==
    /\ SlotsOfTouched(x) # <<>>
    /\ \A n \in 1..Len(SlotsOfTouched(x)) : SenderSlot(SlotsOfTouched(x)[n])

\* C5 as stated: slots associated with the sender never cost the account a
\* stake, initCode or not; factory and paymaster reach them only when initCode
\* is empty.
C5_AccountNeverNeedsStake ==
    Done =>
       \A x \in Touched :
          SenderSlotsOnly(x) =>
             IF x[1] = "account"
                THEN ~UnstakedAccessAt(x)
                ELSE userOp.initCode # <<>> => outcome.status = "rejected"

\* C5 amended: at a touched address where only sender-associated slots are
\* accessed, no entity is rejected by the storage rules when initCode is
\* empty, staked or not; when initCode is non-empty every entity, the account
\* included, must be staked: an unstaked one is rejected ('unstaked {entity}
\* accessed ...' when the storage rules raise the failure), a staked one is
\* not rejected by the storage rules.  Storage at the sender's own address is
\* never looked at.
C5_SenderSlotsNeedStakeUnderInitCode ==
    Done =>
       /\ \A x \in Touched :
             SenderSlotsOnly(x) =>
                IF userOp.initCode # <<>> /\ ~AboveThreshold(InfoOf(x[1])[1])
                   THEN /\ outcome.status = "rejected"
                        /\ FailedNoLaterThan(x[1])
                        /\ RaisedAt(x) => Failure.kind = "violation" /\ UnstakedAccessAt(x)
                   ELSE /\ ~UnstakedAccessAt(x)
                        /\ RaisedAt(x) =>
                              Failure.check \notin {"has forbidden", "unstaked accessed"}
       /\ (\A i \in 1..Len(Levels) : \A n \in 1..Len(Levels[i].access) :
              Levels[i].access[n].key = userOp.sender)
             => Failure.check \notin {"has forbidden", "unstaked accessed", "invalid hex string",
                                      "internal: not in userOp, but has storage accesses"}

\* A staked account under initCode passed with a sender-associated slot of
\* another contract, and validation returned.
C5_StakedAccountPasses ==
    /\ Done
    /\ outcome.status = "returned"
    /\ userOp.initCode # <<>>
    /\ \E x \in Touched : x[1] = "account" /\ SenderSlotsOnly(x)

====
